---------------------------- MODULE Spec2Model ----------------------------
(***************************************************************************)
(* The triage front end of the ambulance dispatch system                   *)
(* (src/frontend/index.tsx): the static decision forest triageData, the    *)
(* state of the App component and its event handlers; and the hospital     *)
(* page (the script in src/README.md): getCurrentLocation,                 *)
(* findNearestHospitals and handleFileUpload, with the hospital server     *)
(* they call.                                                              *)
(*                                                                         *)
(* A reference to a question node of the forest is modelled by the path    *)
(* that leads to it: <<scenarioKey, answer1, ..., answerK>>.  JavaScript's *)
(* null is modelled by the empty sequence (None) and a present value v by  *)
(* the one-element sequence <<v>> where the type needs it.                 *)
(***************************************************************************)
EXTENDS Integers, Sequences, FiniteSets, TLC

VARIABLES
    forest,           \* which static forest the page was built with
    currentScenario,  \* useState<string | null>
    currentQuestion,  \* useState<QuestionNode | null>, as a path
    history,          \* useState<TriageHistory[]>
    level,            \* useState<number | null>
    explanation,      \* useState<string>
    isLoading,        \* useState<boolean>
    mobileNumber,     \* useState<string>
    latitude,         \* useState<string>
    longitude,        \* useState<string>
    dataFetchStatus,  \* 'loading' | 'success' | 'failed'
    fetchPc,          \* position of fetchCallerData: "pending" | "done"
    reportCount,      \* number of POSTs to /api/triage-report so far
    lastReport,       \* payload of the most recent POST, None before the first
    error,            \* what the most recent handler call threw, "" if nothing
    \* the hospital page
    geolocation,      \* 'geolocation' in navigator
    userLocation,     \* let userLocation = { latitude, longitude }
    loadingOverlay,   \* whether #loadingOverlay is displayed
    lastAlert,        \* the most recent showAlert, None before the first
    geoPc,            \* getCurrentPosition: "idle" | "pending"
    searchPc,         \* findNearestHospitals: "idle" | "awaiting", with chosenLevel
    searchCalls,      \* invocations of findNearestHospitals that passed its guard
    searchFetches,    \* POSTs to /api/hospitals/search issued by the page
    triageResults,    \* what #triageResults shows, None before the first search
    uploadPc,         \* handleFileUpload: "idle" | "awaiting"
    uploadCalls,      \* invocations of handleFileUpload that passed its guard
    statsPending,     \* requests of loadHospitalStats in flight
    statsContent,     \* what #statsContent shows, None while it is untouched
    \* the hospital server
    directory,        \* the published hospital directory
    published,        \* every directory published so far
    searchRequest,    \* the search request being served, None if none
    searchSnapshot,   \* the directory the search being served holds
    searchResponse,   \* its response, None until computed
    uploadRequest,    \* the upload being served: the file and the rows built
    uploadResponse    \* its response, None until computed

appVars == <<forest, currentScenario, currentQuestion, history, level,
             explanation, isLoading, mobileNumber, latitude, longitude,
             dataFetchStatus, fetchPc, reportCount, lastReport, error>>

pageVars == <<geolocation, userLocation, loadingOverlay, lastAlert, geoPc,
              searchPc, searchCalls, searchFetches, triageResults, uploadPc,
              uploadCalls, statsPending, statsContent>>

serverVars == <<directory, published, searchRequest, searchSnapshot,
                searchResponse, uploadRequest, uploadResponse>>

hospitalVars == <<pageVars, serverVars>>

vars == <<appVars, hospitalVars>>

triageVars == <<currentScenario, currentQuestion, history, level, explanation>>
callerVars == <<mobileNumber, latitude, longitude>>
fetchVars  == <<dataFetchStatus, fetchPc>>
reportVars == <<reportCount, lastReport>>

----------------------------------------------------------------------------
(* Bounds of the model. *)

\* The model stops sending reports after this many.
MaxReports == 2

\* Direct handler calls stop recording answers at this history length.
MaxHistory == 3

----------------------------------------------------------------------------
(* null and present values *)

None == <<>>
Some(v) == <<v>>

\* currentQuestion: null, and the undefined that an unknown key looks up.
NullQuestion == <<>>
UndefinedQuestion == <<"undefined">>

----------------------------------------------------------------------------
(* The decision forest. *)

\* Lvl with the highest level mistyped as 3
LvlCapped(n) == [level |-> IF n = 4 THEN 3 ELSE n]

Lvl(n) == [level |-> n]
Nxt(node) == [next |-> node]

triageData ==
  [questions |->
    ("1_Fainted_Unconscious" :>
      [question |-> "Is patient awake?",
       options |->
         ("Yes" :> Lvl(1)) @@
         ("No" :> Nxt(
           [question |-> "Is patient breathing?",
            options |->
              ("Yes" :> Nxt(
                [question |-> "How long unconscious?",
                 options |->
                   ("< 2 minutes" :> Lvl(2)) @@
                   ("2-5 minutes" :> Lvl(2)) @@
                   ("> 5 minutes" :> Lvl(3))])) @@
              ("No" :> Lvl(4))]))]) @@
    ("2_ChestPain_Breathing" :>
      [question |-> "Was pain sudden or severe?",
       options |->
         ("No" :> Lvl(2)) @@
         ("Yes" :> Nxt(
           [question |-> "Sweating or vomiting?",
            options |->
              ("No" :> Lvl(2)) @@
              ("Yes" :> Lvl(3))]))]) @@
    ("3_Accident" :>
      [question |-> "How many people injured?",
       options |->
         ("One" :> Nxt(
           [question |-> "Is person awake?",
            options |->
              ("Yes" :> Nxt(
                [question |-> "Any major bleeding/fracture?",
                 options |->
                   ("No" :> Lvl(1)) @@
                   ("Yes" :> Lvl(2))])) @@
              ("No" :> Lvl(3))])) @@
         ("Multiple" :> Lvl(3)) @@
         ("Deaths" :> Lvl(4))]) @@
    ("4_Injury_Fall" :>
      [question |-> "Is patient conscious?",
       options |->
         ("Yes" :> Nxt(
           [question |-> "Bleeding or fracture?",
            options |->
              ("No" :> Lvl(1)) @@
              ("Yes" :> Lvl(2))])) @@
         ("No" :> Lvl(3))]) @@
    ("5_Sickness" :>
      [question |-> "What is the illness?",
       options |->
         ("Mild symptoms (fever, cold)" :> Lvl(1)) @@
         ("Severe symptoms (chest pain, high fever)" :> Lvl(2))]) @@
    ("6_Pregnancy" :>
      [question |-> "Contraction pain?",
       options |->
         ("No" :> Lvl(1)) @@
         ("Yes" :> Nxt(
           [question |-> "Bleeding or water broken?",
            options |->
              ("No" :> Lvl(2)) @@
              ("Water broken" :> Lvl(2)) @@
              ("Bleeding" :> Lvl(3))]))]) @@
    ("7_Poisoning_Bite" :>
      [question |-> "Is patient conscious?",
       options |->
         ("Yes" :> Nxt(
           [question |-> "Swelling or breathing issues?",
            options |->
              ("No" :> Lvl(2)) @@
              ("Yes" :> Lvl(3))])) @@
         ("No" :> Lvl(4))]) @@
    ("8_Fire" :>
      [question |-> "How large is the fire?",
       options |->
         ("Small, no injuries" :> Lvl(1)) @@
         ("Medium, injuries possible" :> Lvl(2)) @@
         ("Large, people trapped" :> Lvl(4))])]

\* The forest of section 4.1's edge case: the shipped scenarios and one whose
\* root is a level with no question.
DegenerateQuestions == triageData.questions @@ ("9_Direct" :> Lvl(2))

\* triageData.questions as the handlers and the page read it
questions ==
    IF forest = "triageData" THEN triageData.questions ELSE DegenerateQuestions

\* The object a path refers to: questions[key] followed along .options[a].next
RECURSIVE Resolve(_)
Resolve(path) ==
    IF Len(path) = 1
    THEN questions[path[1]]
    ELSE Resolve(SubSeq(path, 1, Len(path) - 1)).options[path[Len(path)]].next

\* Object.keys(node.options)
OptionKeys(path) == DOMAIN Resolve(path).options

\* JavaScript truthiness of currentQuestion and of currentScenario
TruthyQuestion(q) == q \notin {NullQuestion, UndefinedQuestion}
TruthyScenario(s) == s # None /\ s # Some("")


----------------------------------------------------------------------------
(* Strings and numbers. *)

\* key.split('_').slice(1).join(' / '), on the keys the model uses
formatScenarioName(key) ==
    CASE key = "1_Fainted_Unconscious" -> "Fainted / Unconscious"
      [] key = "2_ChestPain_Breathing" -> "ChestPain / Breathing"
      [] key = "3_Accident" -> "Accident"
      [] key = "4_Injury_Fall" -> "Injury / Fall"
      [] key = "5_Sickness" -> "Sickness"
      [] key = "6_Pregnancy" -> "Pregnancy"
      [] key = "7_Poisoning_Bite" -> "Poisoning / Bite"
      [] key = "8_Fire" -> "Fire"
      [] key = "9_Direct" -> "Direct"
      [] key = "9_Unknown" -> "Unknown"
      [] key = "bogus" -> ""

\* `Manual Override to Level ${overrideLevel}`
OverrideScenarioName(overrideLevel) ==
    "Manual Override to Level " \o ToString(overrideLevel)

\* `Severity level ${finalLevel} was assigned based on the answer: "${answer}".`
AnswerExplanation(finalLevel, answer) ==
    "Severity level " \o ToString(finalLevel)
        \o " was assigned based on the answer: \"" \o answer \o "\"."

\* `The operator has manually set the emergency severity level to ${n}.`
OverrideExplanation(overrideLevel) ==
    "The operator has manually set the emergency severity level to "
        \o ToString(overrideLevel) \o "."

\* A JavaScript number is NaN or a value, held in tenths of a degree.
NaN == [nan |-> TRUE, tenths |-> 0]
Num(t) == [nan |-> FALSE, tenths |-> t]

\* parseFloat, on the field contents the model uses
parseFloat(s) ==
    CASE s = "" -> NaN
      [] s = "0" -> Num(0)
      [] s = "12.9" -> Num(129)
      [] s = "77.6" -> Num(776)

\* Number.prototype.toString, on the numbers the backend supplies
numberToString(n) ==
    CASE n = Num(0) -> "0"
      [] n = Num(129) -> "12.9"
      [] n = Num(776) -> "77.6"

\* x || null for a number x: NaN and 0 are falsy
OrNull(x) == IF x.nan \/ x.tenths = 0 THEN None ELSE Some(x.tenths)

----------------------------------------------------------------------------
(* Inputs. *)

\* What the operator can type into the caller fields.
MobileInputs == {"", "9876543210"}
LatitudeInputs == {"", "0", "12.9"}
LongitudeInputs == {"", "0", "77.6"}

\* What GET /api/caller-info can answer with.
CallerInfoResponses ==
    { [caller_id |-> "9876543210", location |-> [lat |-> Num(129), lng |-> Num(776)]],
      [caller_id |-> "9876543210", location |-> [lat |-> Num(0), lng |-> Num(0)]] }

\* The buttons of the manual override group.
OverrideButtons == {4, 3, 2, 1}

----------------------------------------------------------------------------
(* The hospital directory and the search of POST /api/hospitals/search.    *)
(* Coordinates are in tenths of a degree, distances in hundredths of a     *)
(* kilometre.  Every coordinate the model uses lies on the meridian        *)
(* 77.6 E, where the haversine formula reduces to R * |dlat|.              *)

\* The model's uploaded files hold at most this many rows.
MaxRows == 6

\* The page starts at most this many uploads and this many searches.
MaxUploads == 1
MaxSearches == 1

\* "top 5 nearest hospitals"
DefaultTopN == 5

Hospital(id, lvl, lat) ==
    [id |-> id, level |-> lvl, latitude |-> lat, longitude |-> 776]

\* The hospitals that uploaded files are made of.
HospitalPool ==
    << Hospital(1, 2, 130), Hospital(2, 1, 128), Hospital(3, 1, 129),
       Hospital(4, 2, 131), Hospital(5, 3, 127), Hospital(6, 2, 132),
       Hospital(7, 4, 126), Hospital(8, 3, 133) >>

Reverse(seq) == [i \in 1..Len(seq) |-> seq[Len(seq) + 1 - i]]

\* The files the operator can upload: the first rows of the pool, last row
\* first, so that a file lists its farthest hospital first and hospitals of
\* equal distance by id descending.
UploadFiles == { Reverse(SubSeq(HospitalPool, 1, k)) : k \in {2, MaxRows} }

Abs(x) == IF x < 0 THEN -x ELSE x

\* Great-circle distance on a mean Earth radius of 6371 km, rounded to two
\* decimals: 6371 * pi / 180 = 111.1949 km per degree of latitude.
haversine(lat1, lng1, lat2, lng2) ==
    CASE lng1 = lng2 -> (Abs(lat1 - lat2) * 1111949 + 500) \div 1000

\* A validation with the two ranges exchanged.
ValidCoordinateSwapped(lat, lng) ==
    /\ lat \in -1800..1800
    /\ lng \in -900..900

\* lat in [-90, 90] and lng in [-180, 180]
ValidCoordinate(lat, lng) ==
    /\ lat \in -900..900
    /\ lng \in -1800..1800

\* An order that compares the distances only.
NearerOnly(a, b) == a.distance_km <= b.distance_km

\* (distance, id) order of two records that carry distance_km
NearerThenId(a, b) ==
    \/ a.distance_km < b.distance_km
    \/ a.distance_km = b.distance_km /\ a.id <= b.id

\* measured records sorted by distance ascending, ties by id ascending:
\* the record at index i goes behind those that the order puts strictly
\* before it, and behind those it does not tell apart at a smaller index.
SortByDistanceThenId(seq) ==
    LET n == Len(seq)
        before(j, i) ==
            /\ NearerThenId(seq[j], seq[i])
            /\ (NearerThenId(seq[i], seq[j]) => j < i)
        rank(i) == Cardinality({ j \in 1..n : before(j, i) }) + 1
    IN [k \in 1..n |-> seq[CHOOSE i \in 1..n : rank(i) = k]]

\* A truncation that truncates nothing.
TakeAll(seq, n) == seq

Take(seq, n) == SubSeq(seq, 1, IF Len(seq) < n THEN Len(seq) ELSE n)

\* search(directory, query, topN): filter by level, compute the distances,
\* sort by distance then id, truncate to topN
search(dir, query, topN) ==
    LET filtered == SelectSeq(dir, LAMBDA r : r.level \in query.allowedLevels)
        measured == [i \in 1..Len(filtered) |->
                        [id |-> filtered[i].id,
                         level |-> filtered[i].level,
                         latitude |-> filtered[i].latitude,
                         longitude |-> filtered[i].longitude,
                         distance_km |->
                            haversine(query.origin.lat, query.origin.lng,
                                      filtered[i].latitude, filtered[i].longitude)]]
    IN Take(SortByDistanceThenId(measured), topN)

\* The search query a request payload stands for.
QueryOf(payload) ==
    [origin |-> [lat |-> payload.latitude, lng |-> payload.longitude],
     allowedLevels |-> { payload.hospital_level[i] :
                            i \in 1..Len(payload.hospital_level) }]

\* The responses of the server: {success, hospitals, error}
SearchFailure(kind) == [success |-> FALSE, hospitals |-> <<>>, error |-> kind]
SearchSuccess(hospitals) == [success |-> TRUE, hospitals |-> hospitals, error |-> ""]

\* What the server answers to a search request that holds the directory dir,
\* refusing an empty directory as EmptyDirectory.
SearchResponseRefusingEmpty(dir, payload) ==
    IF dir = <<>> THEN SearchFailure("EmptyDirectory")
    ELSE SearchSuccess(search(dir, QueryOf(payload), DefaultTopN))

\* What the server answers to a valid search request that holds the
\* directory dir.
SearchResponse(dir, payload) ==
    SearchSuccess(search(dir, QueryOf(payload), DefaultTopN))

\* A read of the directory that sees the rows an upload has built so far.
ReadDirectoryInPlace ==
    IF uploadRequest # None /\ uploadResponse = None
    THEN uploadRequest[1].built
    ELSE directory

\* The directory a search starts with: the published snapshot.
ReadDirectory == directory

InitHospitalState ==
    /\ statsPending = 1
    /\ statsContent = None
    /\ userLocation = [latitude |-> None, longitude |-> None]
    /\ loadingOverlay = FALSE
    /\ lastAlert = None
    /\ geoPc = "idle"
    /\ searchPc = [pc |-> "idle", chosenLevel |-> None]
    /\ searchCalls = 0
    /\ searchFetches = 0
    /\ triageResults = None
    /\ uploadPc = "idle"
    /\ uploadCalls = 0
    /\ directory = <<>>
    /\ published = {<<>>}
    /\ searchRequest = None
    /\ searchSnapshot = None
    /\ searchResponse = None
    /\ uploadRequest = None
    /\ uploadResponse = None

\* The hospital page in a browser with the Geolocation API.
InitHospital == geolocation = TRUE /\ InitHospitalState

----------------------------------------------------------------------------
(* The initial state: the useState initial values, the fetch started by    *)
(* the mount effect still pending.                                         *)

InitApp ==
    /\ currentScenario = None
    /\ currentQuestion = NullQuestion
    /\ history = <<>>
    /\ level = None
    /\ explanation = ""
    /\ isLoading = FALSE
    /\ mobileNumber = ""
    /\ latitude = ""
    /\ longitude = ""
    /\ dataFetchStatus = "loading"
    /\ fetchPc = "pending"
    /\ reportCount = 0
    /\ lastReport = None
    /\ error = ""

Init == forest = "triageData" /\ InitApp /\ InitHospital

----------------------------------------------------------------------------
(* The handlers. *)

\* sendDataToBackend: the payload is built and POSTed at once; the response
\* is only logged.
\* sendDataToBackend that issues its POST twice
sendDataToBackendTwice(finalLevel) ==
    /\ reportCount' = reportCount + 2
    /\ lastReport' = Some([caller_id |-> mobileNumber,
                           location |-> [lat |-> OrNull(parseFloat(latitude)),
                                         lng |-> OrNull(parseFloat(longitude))],
                           emergency_level |-> finalLevel])

sendDataToBackend(finalLevel) ==
    /\ reportCount' = reportCount + 1
    /\ lastReport' = Some([caller_id |-> mobileNumber,
                           location |-> [lat |-> OrNull(parseFloat(latitude)),
                                         lng |-> OrNull(parseFloat(longitude))],
                           emergency_level |-> finalLevel])

\* renderTriageFlow after a scenario was selected: Object.keys of the options
\* of a node that has none throws.
RenderError(q) ==
    IF TruthyQuestion(q) /\ "options" \notin DOMAIN Resolve(q)
    THEN "RenderTypeError" ELSE ""

handleScenarioSelect(scenarioKey) ==
    LET scenarioData == IF scenarioKey \in DOMAIN questions
                        THEN <<scenarioKey>> ELSE UndefinedQuestion
    IN /\ currentScenario' = Some(formatScenarioName(scenarioKey))
       /\ currentQuestion' = scenarioData
       /\ history' = <<>>
       /\ level' = None
       /\ explanation' = ""
       /\ error' = RenderError(scenarioData)
       /\ UNCHANGED <<hospitalVars, forest, isLoading, callerVars, fetchVars, reportVars>>

\* newHistory that puts the new pair in front of the earlier ones
newHistoryPrepended(h, question, option) ==
    <<[question |-> question, answer |-> option]>> \o h

\* newHistory without the spread of the earlier pairs
newHistoryWithoutSpread(h, question, option) ==
    <<[question |-> question, answer |-> option]>>

\* [...history, { question: currentQuestion.question, answer: option }]
newHistory(h, question, option) ==
    Append(h, [question |-> question, answer |-> option])

\* nextQuestion that leaves the cursor on the question just answered
nextQuestionStay(q, option) == q

\* nextQuestion that advances only once the caller data was fetched
nextQuestionByStatus(q, option) ==
    IF dataFetchStatus = "failed" THEN q ELSE Append(q, option)

\* result.next, the child that the chosen answer leads to
nextQuestion(q, option) == Append(q, option)

handleOptionSelect(option) ==
    IF ~TruthyQuestion(currentQuestion) \/ ~TruthyScenario(currentScenario)
    THEN /\ error' = ""
         /\ UNCHANGED <<hospitalVars, forest, triageVars, isLoading, callerVars,
                        fetchVars, reportVars>>
    ELSE
      LET node == Resolve(currentQuestion)
          h == newHistory(history, node.question, option)
      IN /\ history' = h
         /\ UNCHANGED <<hospitalVars, forest, currentScenario, isLoading, callerVars, fetchVars>>
         /\ IF option \notin DOMAIN node.options
            THEN \* result is undefined: result.next throws
                 /\ error' = "TypeError"
                 /\ UNCHANGED <<currentQuestion, level, explanation, reportVars>>
            ELSE
              LET result == node.options[option]
              IN /\ error' = ""
                 /\ IF "next" \in DOMAIN result
                    THEN /\ currentQuestion' = nextQuestion(currentQuestion, option)
                         /\ UNCHANGED <<level, explanation, reportVars>>
                    ELSE IF "level" \in DOMAIN result /\ result.level # 0
                    THEN /\ level' = Some(result.level)
                         /\ sendDataToBackend(result.level)
                         /\ explanation' = AnswerExplanation(result.level,
                                                             h[Len(h)].answer)
                         /\ UNCHANGED currentQuestion
                    ELSE UNCHANGED <<currentQuestion, level, explanation, reportVars>>

\* handleManualOverride that also records the override as an answer
handleManualOverrideRecorded(overrideLevel) ==
    /\ level' = Some(overrideLevel)
    /\ currentScenario' = Some(OverrideScenarioName(overrideLevel))
    /\ history' = Append(history, [question |-> "Manual override",
                                   answer |-> ToString(overrideLevel)])
    /\ sendDataToBackend(overrideLevel)
    /\ explanation' = OverrideExplanation(overrideLevel)
    /\ error' = ""
    /\ UNCHANGED <<hospitalVars, forest, currentQuestion, isLoading, callerVars, fetchVars>>

handleManualOverride(overrideLevel) ==
    /\ level' = Some(overrideLevel)
    /\ currentScenario' = Some(OverrideScenarioName(overrideLevel))
    /\ sendDataToBackend(overrideLevel)
    /\ explanation' = OverrideExplanation(overrideLevel)
    /\ error' = ""
    /\ UNCHANGED <<hospitalVars, forest, currentQuestion, history, isLoading, callerVars, fetchVars>>

\* resetTriage that resets the caller info as well
resetTriageAndCallerInfo ==
    /\ currentScenario' = None
    /\ currentQuestion' = NullQuestion
    /\ history' = <<>>
    /\ level' = None
    /\ explanation' = ""
    /\ isLoading' = FALSE
    /\ error' = ""
    /\ mobileNumber' = ""
    /\ latitude' = ""
    /\ longitude' = ""
    /\ UNCHANGED <<hospitalVars, forest, fetchVars, reportVars>>

resetTriage ==
    /\ currentScenario' = None
    /\ currentQuestion' = NullQuestion
    /\ history' = <<>>
    /\ level' = None
    /\ explanation' = ""
    /\ isLoading' = FALSE
    /\ error' = ""
    /\ UNCHANGED <<hospitalVars, forest, callerVars, fetchVars, reportVars>>

\* fetchCallerData after its await: the response arrived, or the request failed
fetchCallerData(ok, data) ==
    /\ fetchPc = "pending"
    /\ fetchPc' = "done"
    /\ IF ok
       THEN /\ mobileNumber' = data.caller_id
            /\ latitude' = numberToString(data.location.lat)
            /\ longitude' = numberToString(data.location.lng)
            /\ dataFetchStatus' = "success"
       ELSE /\ dataFetchStatus' = "failed"
            /\ UNCHANGED callerVars
    /\ UNCHANGED <<hospitalVars, forest, triageVars, isLoading, reportVars, error>>

----------------------------------------------------------------------------
(* What the rendered page lets the operator do. *)

\* An uncaught error while rendering unmounts the application.
Mounted == error # "RenderTypeError"

\* renderTriageFlow: the result view, the question view, the start view
ShowResult == level # None
ShowQuestion == level = None /\ TruthyQuestion(currentQuestion)
\* ShowStart that does not look at the level
ShowStartBesideResult == ~TruthyQuestion(currentQuestion)
\* ShowStart that keeps the start view up while a question is asked
ShowStartWhileAsking == level = None
ShowStart == level = None /\ ~TruthyQuestion(currentQuestion)

\* the caller-info container with fields that are never readOnly
CallerInfoEditableWhenFetched ==
    ~TruthyQuestion(currentQuestion) /\ level = None

\* the caller-info container and its readOnly fields
CallerInfoEditable ==
    ~TruthyQuestion(currentQuestion) /\ level = None /\ dataFetchStatus # "success"

ClickScenario ==
    /\ Mounted /\ ShowStart
    /\ \E scenarioKey \in DOMAIN questions : handleScenarioSelect(scenarioKey)

ClickOption ==
    /\ Mounted /\ ShowQuestion
    /\ \E option \in OptionKeys(currentQuestion) :
          /\ ("level" \in DOMAIN Resolve(currentQuestion).options[option]
                => reportCount < MaxReports)
          /\ handleOptionSelect(option)

ClickOverride ==
    /\ Mounted /\ ShowStart
    /\ reportCount < MaxReports
    /\ \E overrideLevel \in OverrideButtons : handleManualOverride(overrideLevel)

ClickStartNewTriage ==
    /\ Mounted /\ ShowResult
    /\ resetTriage

EditMobileNumber ==
    /\ Mounted /\ CallerInfoEditable
    /\ \E v \in MobileInputs \ {mobileNumber} : mobileNumber' = v
    /\ UNCHANGED <<hospitalVars, forest, triageVars, isLoading, latitude, longitude,
                   fetchVars, reportVars, error>>

EditLatitude ==
    /\ Mounted /\ CallerInfoEditable
    /\ \E v \in LatitudeInputs \ {latitude} : latitude' = v
    /\ UNCHANGED <<hospitalVars, forest, triageVars, isLoading, mobileNumber, longitude,
                   fetchVars, reportVars, error>>

EditLongitude ==
    /\ Mounted /\ CallerInfoEditable
    /\ \E v \in LongitudeInputs \ {longitude} : longitude' = v
    /\ UNCHANGED <<hospitalVars, forest, triageVars, isLoading, mobileNumber, latitude,
                   fetchVars, reportVars, error>>

FetchSucceeds ==
    /\ Mounted
    /\ \E data \in CallerInfoResponses : fetchCallerData(TRUE, data)

FetchFails ==
    /\ Mounted
    /\ fetchCallerData(FALSE, [caller_id |-> ""])

Next ==
    \/ ClickScenario
    \/ ClickOption
    \/ ClickOverride
    \/ ClickStartNewTriage
    \/ EditMobileNumber
    \/ EditLatitude
    \/ EditLongitude
    \/ FetchSucceeds
    \/ FetchFails

Spec == Init /\ [][Next]_vars

----------------------------------------------------------------------------
(* The handlers called with arguments the page never offers: an answer     *)
(* that is no key of the current node's options, a scenario key that is no *)
(* key of the forest, an override level outside 1..4.  Each call is made   *)
(* in a state where the page shows the corresponding control.              *)

AnyLabels == {"Yes", "Maybe"}
UnknownScenarioKeys == {"9_Unknown", "bogus"}
InvalidLevels == {0, 7}

CallOptionOutsideKeys ==
    /\ Mounted /\ ShowQuestion
    /\ Len(history) < MaxHistory
    /\ \E option \in AnyLabels \ OptionKeys(currentQuestion) :
          handleOptionSelect(option)

CallScenarioOutsideKeys ==
    /\ Mounted /\ ShowStart
    /\ \E scenarioKey \in UnknownScenarioKeys \ DOMAIN questions :
          handleScenarioSelect(scenarioKey)

CallOverrideOutsideRange ==
    /\ Mounted /\ ShowStart
    /\ reportCount < MaxReports
    /\ \E overrideLevel \in InvalidLevels : handleManualOverride(overrideLevel)

NextAPI ==
    \/ Next
    \/ CallOptionOutsideKeys
    \/ CallScenarioOutsideKeys
    \/ CallOverrideOutsideRange

SpecAPI == Init /\ [][NextAPI]_vars

----------------------------------------------------------------------------
(* The same page over a forest that also holds a scenario whose root is a  *)
(* level with no question.                                                 *)

InitDegenerate == forest = "degenerate" /\ InitApp /\ InitHospital

SpecDegenerate == InitDegenerate /\ [][Next]_vars

----------------------------------------------------------------------------
(* The hospital page: the handlers of the script in src/README.md, and the *)
(* server behind POST /api/hospitals/search and /api/hospitals/upload.     *)

geoVars    == <<geolocation, userLocation, geoPc>>
searchVars == <<searchPc, searchCalls, searchFetches, triageResults,
                searchRequest, searchSnapshot, searchResponse>>
uploadVars == <<uploadPc, uploadCalls, uploadRequest, uploadResponse>>
statsVars  == <<statsPending, statsContent>>
dirVars    == <<directory, published>>

\* What the Geolocation API can report.
GeolocationPositions ==
    { [latitude |-> 129, longitude |-> 776],
      [latitude |-> 0, longitude |-> 776] }

\* The values of the #hospitalLevel select the model picks.
LevelSelectValues == {"", "3"}

\* What the file input can hold on submit: nothing, or one of the files.
FileInputs == {None} \cup { Some(f) : f \in UploadFiles }

\* !x for a coordinate: null and 0 are falsy
Falsy(x) == x = None \/ x = Some(0)

\* parseInt, on the values the select can have
parseInt(s) ==
    CASE s = "" -> NaN
      [] s = "1" -> Num(10)
      [] s = "2" -> Num(20)
      [] s = "3" -> Num(30)
      [] s = "4" -> Num(40)

\* chosenLevel of findNearestHospitals: null unless a level is selected
chosenLevel(value) ==
    IF value # "" /\ ~parseInt(value).nan
    THEN Some(parseInt(value).tenths \div 10)
    ELSE None

\* A payload that asks for every level whatever was selected.
hospital_levelAny(value) == <<1, 2, 3, 4>>

\* hospital_level of the payload
hospital_level(value) ==
    IF chosenLevel(value) # None THEN <<chosenLevel(value)[1]>> ELSE <<1, 2, 3, 4>>

\* A flag raised whenever the response holds no hospital.
didFallbackOnEmpty ==
    searchResponse # None /\ searchResponse[1].result.hospitals = <<>>

\* let didFallback = false
didFallback == FALSE

\* The list left as the response delivered it.
sortNotAtAll(hospitals) == hospitals

\* hospitals.sort((a, b) => aDist - bDist): a stable sort by distance_km.
\* The record at index i goes behind those of a smaller distance and those
\* of the same distance at a smaller index.
sortByDistance(hospitals) ==
    LET n == Len(hospitals)
        before(j, i) ==
            \/ hospitals[j].distance_km < hospitals[i].distance_km
            \/ hospitals[j].distance_km = hospitals[i].distance_km /\ j < i
        rank(i) == Cardinality({ j \in 1..n : before(j, i) }) + 1
    IN [k \in 1..n |-> hospitals[CHOOSE i \in 1..n : rank(i) = k]]

\* What a fetch hands to the handler: a parsed body, or an exception.
Delivered(result) == Some([threw |-> FALSE, result |-> result])
Thrown == Some([threw |-> TRUE, result |-> SearchFailure("")])

getCurrentLocation ==
    /\ IF geolocation
       THEN /\ loadingOverlay' = TRUE
            /\ geoPc' = "pending"
            /\ UNCHANGED lastAlert
       ELSE /\ lastAlert' = Some("Geolocation is not supported by your browser")
            /\ UNCHANGED <<loadingOverlay, geoPc>>
    /\ UNCHANGED <<appVars, geolocation, userLocation, searchVars, uploadVars,
                   statsVars, dirVars>>

\* the success callback of getCurrentPosition
getCurrentPositionSuccess(position) ==
    /\ geoPc = "pending"
    /\ geoPc' = "idle"
    /\ userLocation' = [latitude |-> Some(position.latitude),
                        longitude |-> Some(position.longitude)]
    /\ loadingOverlay' = FALSE
    /\ lastAlert' = Some("Location obtained successfully")
    /\ UNCHANGED <<appVars, geolocation, searchVars, uploadVars, statsVars, dirVars>>

\* An error callback that leaves the overlay as it is.
getCurrentPositionErrorKeepsOverlay ==
    /\ geoPc = "pending"
    /\ geoPc' = "idle"
    /\ lastAlert' = Some("Could not get your location. Please enable location services.")
    /\ UNCHANGED <<appVars, geolocation, userLocation, loadingOverlay, searchVars,
                   uploadVars, statsVars, dirVars>>

\* the error callback of getCurrentPosition
getCurrentPositionError ==
    /\ geoPc = "pending"
    /\ geoPc' = "idle"
    /\ loadingOverlay' = FALSE
    /\ lastAlert' = Some("Could not get your location. Please enable location services.")
    /\ UNCHANGED <<appVars, geolocation, userLocation, searchVars, uploadVars,
                   statsVars, dirVars>>

\* findNearestHospitals up to its first await; value is levelEl.value
findNearestHospitals(value) ==
    /\ IF Falsy(userLocation.latitude) \/ Falsy(userLocation.longitude)
       THEN /\ lastAlert' = Some("Please obtain your location first")
            /\ UNCHANGED <<loadingOverlay, searchVars>>
       ELSE /\ loadingOverlay' = TRUE
            /\ searchRequest' = Some([latitude |-> userLocation.latitude[1],
                                      longitude |-> userLocation.longitude[1],
                                      hospital_level |-> hospital_level(value)])
            /\ searchPc' = [pc |-> "awaiting", chosenLevel |-> chosenLevel(value)]
            /\ searchCalls' = searchCalls + 1
            /\ searchFetches' = searchFetches + 1
            /\ UNCHANGED <<lastAlert, triageResults, searchSnapshot, searchResponse>>
    /\ UNCHANGED <<appVars, geoVars, uploadVars, statsVars, dirVars>>

\* findNearestHospitals after its awaits: the response, the catch, the finally
findNearestHospitalsResumes ==
    /\ searchPc.pc = "awaiting"
    /\ searchResponse # None
    /\ LET result == searchResponse[1].result
           hospitals == sortByDistance(result.hospitals)
       IN IF searchResponse[1].threw
          THEN /\ lastAlert' = Some("Error finding nearest hospitals")
               /\ UNCHANGED triageResults
          ELSE IF ~result.success
          THEN /\ lastAlert' = Some("Search failed: " \o
                       (IF result.error = "" THEN "Unknown error" ELSE result.error))
               /\ UNCHANGED triageResults
          ELSE /\ triageResults' =
                     Some([subtitle |-> searchPc.chosenLevel,
                           warning |-> didFallback,
                           none |-> Len(hospitals) = 0,
                           cards |-> hospitals])
               /\ UNCHANGED lastAlert
    /\ loadingOverlay' = FALSE
    /\ searchPc' = [pc |-> "idle", chosenLevel |-> None]
    /\ searchRequest' = None
    /\ searchSnapshot' = None
    /\ searchResponse' = None
    /\ UNCHANGED <<appVars, geoVars, searchCalls, searchFetches, uploadVars,
                   statsVars, dirVars>>

\* handleFileUpload up to its first await; files is fileInput.files
handleFileUpload(files) ==
    /\ IF files = None
       THEN /\ lastAlert' = Some("Please select at least one file to upload")
            /\ UNCHANGED <<loadingOverlay, uploadVars>>
       ELSE /\ loadingOverlay' = TRUE
            /\ uploadRequest' = Some([file |-> files[1], built |-> <<>>])
            /\ uploadPc' = "awaiting"
            /\ uploadCalls' = uploadCalls + 1
            /\ UNCHANGED <<lastAlert, uploadResponse>>
    /\ UNCHANGED <<appVars, geoVars, searchVars, statsVars, dirVars>>

\* handleFileUpload after its awaits
handleFileUploadResumes ==
    /\ uploadPc = "awaiting"
    /\ uploadResponse # None
    /\ LET result == uploadResponse[1].result
       IN IF uploadResponse[1].threw
          THEN /\ lastAlert' = Some("Error uploading file")
               /\ UNCHANGED statsPending
          ELSE IF result.success
          THEN /\ lastAlert' = Some("Successfully uploaded hospital data: " \o result.message)
               /\ statsPending' = statsPending + 1
          ELSE /\ lastAlert' = Some("Upload failed: " \o result.error)
               /\ UNCHANGED statsPending
    /\ loadingOverlay' = FALSE
    /\ uploadPc' = "idle"
    /\ uploadRequest' = None
    /\ uploadResponse' = None
    /\ UNCHANGED <<appVars, geoVars, searchVars, uploadCalls, statsContent, dirVars>>

\* loadHospitalStats after its awaits, and displayHospitalStats
loadHospitalStatsResumes(ok) ==
    /\ statsPending > 0
    /\ statsPending' = statsPending - 1
    /\ IF ok
       THEN statsContent' = Some(Len(directory))
       ELSE UNCHANGED statsContent
    /\ UNCHANGED <<appVars, geoVars, loadingOverlay, lastAlert, searchVars,
                   uploadVars, dirVars>>

----------------------------------------------------------------------------
(* The server of the hospital directory. *)

\* The server takes up a search request: it validates the origin and, if
\* valid, takes hold of the current snapshot.
ServerSearchBegins ==
    /\ searchRequest # None
    /\ searchSnapshot = None
    /\ searchResponse = None
    /\ IF ValidCoordinate(searchRequest[1].latitude, searchRequest[1].longitude)
       THEN /\ searchSnapshot' = Some(ReadDirectory)
            /\ UNCHANGED searchResponse
       ELSE /\ searchResponse' = Delivered(SearchFailure("InvalidCoordinate"))
            /\ UNCHANGED searchSnapshot
    /\ UNCHANGED <<appVars, geoVars, loadingOverlay, lastAlert, searchPc,
                   searchCalls, searchFetches, triageResults, searchRequest,
                   uploadVars, statsVars, dirVars>>

\* The server ranks the snapshot it holds and answers.
ServerSearchFinishes ==
    /\ searchSnapshot # None
    /\ searchResponse = None
    /\ searchResponse' = Delivered(SearchResponse(searchSnapshot[1], searchRequest[1]))
    /\ UNCHANGED <<appVars, geoVars, loadingOverlay, lastAlert, searchPc,
                   searchCalls, searchFetches, triageResults, searchRequest,
                   searchSnapshot, uploadVars, statsVars, dirVars>>

\* The request or its response is lost: fetch rejects.
SearchFetchFails ==
    /\ searchPc.pc = "awaiting"
    /\ searchResponse = None
    /\ searchResponse' = Thrown
    /\ UNCHANGED <<appVars, geoVars, loadingOverlay, lastAlert, searchPc,
                   searchCalls, searchFetches, triageResults, searchRequest,
                   searchSnapshot, uploadVars, statsVars, dirVars>>

\* The server builds the next row of the new snapshot, off to the side.
ServerUploadBuildsRow ==
    /\ uploadRequest # None
    /\ uploadResponse = None
    /\ Len(uploadRequest[1].built) < Len(uploadRequest[1].file)
    /\ uploadRequest' =
          Some([uploadRequest[1] EXCEPT
                  !.built = Append(@, uploadRequest[1].file[Len(@) + 1])])
    /\ UNCHANGED <<appVars, geoVars, loadingOverlay, lastAlert, searchVars,
                   uploadPc, uploadCalls, uploadResponse, statsVars, dirVars>>

\* The server publishes the snapshot it has built and answers.
ServerUploadPublishes ==
    /\ uploadRequest # None
    /\ uploadResponse = None
    /\ Len(uploadRequest[1].built) = Len(uploadRequest[1].file)
    /\ directory' = uploadRequest[1].built
    /\ published' = published \cup {uploadRequest[1].built}
    /\ uploadResponse' = Delivered([success |-> TRUE, message |-> "ok", error |-> ""])
    /\ UNCHANGED <<appVars, geoVars, loadingOverlay, lastAlert, searchVars,
                   uploadPc, uploadCalls, uploadRequest, statsVars>>

\* The upload request or its response is lost: fetch rejects.
UploadFetchFails ==
    /\ uploadPc = "awaiting"
    /\ uploadResponse = None
    /\ uploadResponse' =
          Some([threw |-> TRUE,
                result |-> [success |-> FALSE, message |-> "", error |-> ""]])
    /\ UNCHANGED <<appVars, geoVars, loadingOverlay, lastAlert, searchVars,
                   uploadPc, uploadCalls, uploadRequest, statsVars, dirVars>>

----------------------------------------------------------------------------
(* The events of the hospital page. *)

ClickGetLocation ==
    /\ geoPc = "idle"
    /\ getCurrentLocation

GeolocationSucceeds ==
    \E position \in GeolocationPositions : getCurrentPositionSuccess(position)

GeolocationFails == getCurrentPositionError

ClickNearestHospitals ==
    /\ searchPc.pc = "idle"
    /\ searchRequest = None
    /\ searchCalls < MaxSearches
    /\ \E value \in LevelSelectValues : findNearestHospitals(value)

SubmitUploadForm ==
    /\ uploadPc = "idle"
    /\ uploadCalls < MaxUploads
    /\ \E files \in FileInputs : handleFileUpload(files)

StatsArrive == loadHospitalStatsResumes(TRUE)

StatsFail == loadHospitalStatsResumes(FALSE)

NextHospital ==
    \/ ClickGetLocation
    \/ GeolocationSucceeds
    \/ GeolocationFails
    \/ ClickNearestHospitals
    \/ findNearestHospitalsResumes
    \/ SubmitUploadForm
    \/ handleFileUploadResumes
    \/ StatsArrive
    \/ StatsFail
    \/ ServerSearchBegins
    \/ ServerSearchFinishes
    \/ SearchFetchFails
    \/ ServerUploadBuildsRow
    \/ ServerUploadPublishes
    \/ UploadFetchFails

InitHospitalPage ==
    /\ forest = "triageData"
    /\ InitApp
    /\ geolocation \in BOOLEAN
    /\ InitHospitalState

\* The hospital page and its server.
SpecHospital == InitHospitalPage /\ [][NextHospital]_vars

----------------------------------------------------------------------------
(* Notions the properties below use. *)

\* The level on display was reached by answering questions: the cursor still
\* points at the last question asked.
LevelByTraversal == level # None /\ TruthyQuestion(currentQuestion)

\* The level on display was set by a manual override.
LevelByOverride == level # None /\ ~TruthyQuestion(currentQuestion)

Max(S) == CHOOSE x \in S : \A y \in S : y <= x

\* The largest number of answers that a traversal starting at node can take.
RECURSIVE Height(_)
Height(node) ==
    1 + Max({ IF "next" \in DOMAIN node.options[o]
              THEN Height(node.options[o].next) ELSE 0 : o \in DOMAIN node.options })

\* Every answer offered at node leads to a question that offers answers or to
\* a level in 1..4.
EveryAnswerProgresses(node) ==
    /\ DOMAIN node.options # {}
    /\ \A o \in DOMAIN node.options :
          LET r == node.options[o]
          IN IF "next" \in DOMAIN r
             THEN DOMAIN r.next.options # {}
             ELSE "level" \in DOMAIN r /\ r.level \in 1..4

----------------------------------------------------------------------------
(* C1: for every scenario and every sequence of answers, the traversal     *)
(* reaches a level in 1..4 after at most 4 answers: while a question is    *)
(* shown, the answers given so far plus the longest remaining path number  *)
(* at most 4 and every answer offered leads on to a question or to a level *)
(* in 1..4; a level reached by traversal is in 1..4 and took at most 4     *)
(* answers.                                                                *)
C1_TraversalTerminates ==
    /\ ShowQuestion =>
          /\ Len(history) + Height(Resolve(currentQuestion)) <= 4
          /\ EveryAnswerProgresses(Resolve(currentQuestion))
    /\ LevelByTraversal =>
          /\ level[1] \in 1..4
          /\ Len(history) \in 1..4

\* A level reached at the end of a longest path (three answers).
C1_Witness == LevelByTraversal /\ Len(history) = 3 /\ level = Some(3)

----------------------------------------------------------------------------
(* C2: in scenario Fainted / Unconscious, answering "No" to the first      *)
(* question presents "Is patient breathing?", and answering "No" to that   *)
(* question yields level 4.                                                *)
C2_FaintedNoNo ==
    currentScenario = Some("Fainted / Unconscious") =>
      /\ (Len(history) >= 1 /\ history[1].answer = "No" /\ Len(history) = 1) =>
            /\ history[1].question = "Is patient awake?"
            /\ ShowQuestion
            /\ Resolve(currentQuestion).question = "Is patient breathing?"
      /\ (Len(history) = 2 /\ history[1].answer = "No" /\ history[2].answer = "No") =>
            /\ history[2].question = "Is patient breathing?"
            /\ level = Some(4)

C2_Witness ==
    /\ currentScenario = Some("Fainted / Unconscious")
    /\ Len(history) = 2
    /\ history[1].answer = "No"
    /\ history[2].answer = "No"
    /\ level = Some(4)

----------------------------------------------------------------------------
(* C3: a manual override with n in 1..4 produces level n at once and       *)
(* traverses no tree: the cursor stays null, the history stays empty, and  *)
(* the level, the scenario name and the explanation are those of n.        *)
C3_OverrideBypassesTree ==
    \A n \in 1..4 :
       currentScenario = Some(OverrideScenarioName(n)) =>
          /\ level = Some(n)
          /\ currentQuestion = NullQuestion
          /\ history = <<>>
          /\ explanation = OverrideExplanation(n)

C3_Witness ==
    /\ currentScenario = Some(OverrideScenarioName(3))
    /\ level = Some(3)
    /\ history = <<>>

----------------------------------------------------------------------------
----------------------------------------------------------------------------
(* C5: an answer that is no key of the current node's options fails with   *)
(* an explicit InvalidAnswer error, never with an undefined outcome: no    *)
(* handler call ends in the TypeError of reading a field of undefined, and *)
(* every answer a step records is a key of the options of the node it      *)
(* answers.                                                                *)
C5_InvalidAnswerRejected ==
    [][ /\ error' # "TypeError"
        /\ (ShowQuestion /\ Len(history') = Len(history) + 1) =>
              history'[Len(history')].answer \in OptionKeys(currentQuestion) ]_vars

----------------------------------------------------------------------------
(* C6: selecting a scenario whose identifier is not in the fixed scenario  *)
(* set fails with UnknownScenario and starts no session: the current       *)
(* scenario is never the name of an unknown identifier and the current     *)
(* question is never the undefined that such an identifier looks up.       *)
C6_UnknownScenarioRejected ==
    /\ currentQuestion # UndefinedQuestion
    /\ \A scenarioKey \in UnknownScenarioKeys \ DOMAIN questions :
          currentScenario # Some(formatScenarioName(scenarioKey))

----------------------------------------------------------------------------
(* C7: a manual override validates its level: no level outside 1..4 is     *)
(* ever assigned, and none is reported to the backend.                     *)
C7_OverrideLevelValidated ==
    /\ level # None => level[1] \in 1..4
    /\ lastReport # None => lastReport[1].emergency_level \in 1..4

----------------------------------------------------------------------------
(* C8: there is no backtracking: a step leaves the cursor where it is,     *)
(* moves it to the child chosen by the answer just recorded, clears it     *)
(* together with the whole session, or, from the start view only, puts it  *)
(* on a scenario root with an empty history.                               *)
C8_NoBacktracking ==
    [][ \/ currentQuestion' = currentQuestion
        \/ /\ TruthyQuestion(currentQuestion)
           /\ Len(history') = Len(history) + 1
           /\ currentQuestion' =
                 Append(currentQuestion, history'[Len(history')].answer)
           /\ Resolve(currentQuestion') =
                 Resolve(currentQuestion).options[history'[Len(history')].answer].next
        \/ /\ currentQuestion' = NullQuestion
           /\ history' = <<>>
           /\ level' = None
           /\ currentScenario' = None
        \/ /\ currentQuestion = NullQuestion
           /\ level = None
           /\ Len(currentQuestion') = 1
           /\ currentQuestion'[1] \in DOMAIN questions
           /\ history' = <<>> ]_vars

\* The cursor two answers below a root.
C8_Witness == ShowQuestion /\ Len(currentQuestion) = 3 /\ Len(history) = 2

----------------------------------------------------------------------------
(* C9, as claimed: when an answer reaches a terminal level the history and *)
(* the cursor are cleared.                                                 *)
C9_SessionClearedAtLevel ==
    level # None => history = <<>> /\ currentQuestion = NullQuestion

(* C9, amended: the answer that reaches a terminal level clears nothing:   *)
(* the history gains the final (question, answer) pair and the cursor      *)
(* stays on the last question asked; while the level is on display the     *)
(* history and the cursor change only by being cleared, with the level and *)
(* the scenario, by resetTriage.                                           *)
C9_SessionKeptUntilReset ==
    [][ /\ (level = None /\ level' # None /\ TruthyQuestion(currentQuestion)) =>
              /\ history' = Append(history,
                    [question |-> Resolve(currentQuestion).question,
                     answer |-> history'[Len(history')].answer])
              /\ currentQuestion' = currentQuestion
        /\ (level # None /\ (history' # history \/ currentQuestion' # currentQuestion)) =>
              /\ history' = <<>>
              /\ currentQuestion' = NullQuestion
              /\ level' = None
              /\ currentScenario' = None ]_vars

\* A level reached by two answers, both still in the history.
C9_Witness ==
    /\ LevelByTraversal
    /\ Len(history) = 2
    /\ Len(currentQuestion) = 2
    /\ history[2].question = Resolve(currentQuestion).question

----------------------------------------------------------------------------
----------------------------------------------------------------------------
(* C20: resetTriage clears the scenario, the current question, the         *)
(* history, the level and the explanation, and leaves the caller info      *)
(* (mobile number, latitude, longitude) and the fetch status as they were. *)
C20_ResetKeepsCallerInfo ==
    [][ (level # None /\ level' = None) =>
           /\ currentScenario' = None
           /\ currentQuestion' = NullQuestion
           /\ history' = <<>>
           /\ explanation' = ""
           /\ mobileNumber' = mobileNumber
           /\ latitude' = latitude
           /\ longitude' = longitude
           /\ dataFetchStatus' = dataFetchStatus ]_vars

\* After a triage that was reported and then reset, the caller info that
\* was fetched is still there.
C20_Witness ==
    /\ reportCount >= 1
    /\ level = None
    /\ currentScenario = None
    /\ currentQuestion = NullQuestion
    /\ history = <<>>
    /\ explanation = ""
    /\ mobileNumber = "9876543210"
    /\ latitude = "12.9"
    /\ longitude = "77.6"
    /\ dataFetchStatus = "success"

----------------------------------------------------------------------------
(* A server that hands the ranked hospitals over in the opposite order.    *)
ServerSearchFinishesReversed ==
    /\ searchSnapshot # None
    /\ searchResponse = None
    /\ searchResponse' =
          Delivered(SearchSuccess(
              Reverse(SearchResponse(searchSnapshot[1], searchRequest[1]).hospitals)))
    /\ UNCHANGED <<appVars, geoVars, loadingOverlay, lastAlert, searchPc,
                   searchCalls, searchFetches, triageResults, searchRequest,
                   searchSnapshot, uploadVars, statsVars, dirVars>>

NextAnyOrder ==
    \/ NextHospital
    \/ ServerSearchFinishesReversed

\* The hospital page with a server whose response order is not relied on.
SpecHospitalAnyOrder == InitHospitalPage /\ [][NextAnyOrder]_vars

\* seq is ascending by distance_km
AscendingByDistance(seq) ==
    \A i, j \in 1..Len(seq) : i < j => seq[i].distance_km <= seq[j].distance_km

----------------------------------------------------------------------------
(* C11: the hospital list a search displays is sorted ascending by         *)
(* distance_km, whatever order the records had in the directory or in the  *)
(* server's response.                                                      *)
C11_ListAscendingByDistance ==
    triageResults # None => AscendingByDistance(triageResults[1].cards)

\* Five hospitals at three different distances are displayed, nearest
\* first, out of a directory that lists the farthest hospital first.
C11_Witness ==
    /\ triageResults # None
    /\ Len(triageResults[1].cards) = 5
    /\ triageResults[1].cards[1].distance_km < triageResults[1].cards[3].distance_km
    /\ triageResults[1].cards[3].distance_km < triageResults[1].cards[5].distance_km
    /\ directory # <<>>
    /\ ~AscendingByDistance(
           [i \in 1..Len(directory) |->
               [distance_km |-> Abs(directory[i].latitude - 129)]])

----------------------------------------------------------------------------
\* seq lists records of equal distance by id ascending
TiesById(seq) ==
    \A i, j \in 1..Len(seq) :
       (i < j /\ seq[i].distance_km = seq[j].distance_km) => seq[i].id < seq[j].id

----------------------------------------------------------------------------
(* C13: a search restricted to one level L returns only hospitals of level *)
(* L, even when a nearer hospital of another level exists; the request     *)
(* carries exactly <<L>> when the user picked a level and <<1, 2, 3, 4>>   *)
(* when none was picked.                                                   *)
C13_OnlyTheChosenLevel ==
    /\ searchPc.pc = "awaiting" =>
          searchRequest[1].hospital_level =
             IF searchPc.chosenLevel # None
             THEN <<searchPc.chosenLevel[1]>>
             ELSE <<1, 2, 3, 4>>
    /\ (searchPc.pc = "awaiting" /\ searchResponse # None) =>
          \A i \in 1..Len(searchResponse[1].result.hospitals) :
             \E k \in 1..Len(searchRequest[1].hospital_level) :
                searchResponse[1].result.hospitals[i].level =
                   searchRequest[1].hospital_level[k]
    /\ (triageResults # None /\ triageResults[1].subtitle # None) =>
          \A i \in 1..Len(triageResults[1].cards) :
             triageResults[1].cards[i].level = triageResults[1].subtitle[1]

\* Level 3 was picked and only the level-3 hospital is displayed, although
\* the directory holds a level-1 hospital nearer than it.
C13_Witness ==
    /\ triageResults # None
    /\ triageResults[1].subtitle = Some(3)
    /\ Len(triageResults[1].cards) >= 1
    /\ \A i \in 1..Len(triageResults[1].cards) : triageResults[1].cards[i].level = 3
    /\ userLocation = [latitude |-> Some(129), longitude |-> Some(776)]
    /\ \E r \in 1..Len(directory) :
          /\ directory[r].level = 1
          /\ haversine(129, 776, directory[r].latitude, directory[r].longitude)
                < triageResults[1].cards[1].distance_km

----------------------------------------------------------------------------
\* the number of records of dir whose level the request allows
Matching(dir, payload) ==
    Cardinality({ r \in 1..Len(dir) : dir[r].level \in QueryOf(payload).allowedLevels })

Min(a, b) == IF a < b THEN a ELSE b

(* C14: a search returns, and the page displays, exactly                   *)
(* min(topN, number of records passing the level filter) hospitals, with   *)
(* topN = 5: never more than topN, and fewer matching records than topN    *)
(* is not an error.                                                        *)
C14_ExactlyMinTopNMatching ==
    [][ ( /\ searchPc.pc = "awaiting"
          /\ searchPc'.pc = "idle"
          /\ searchSnapshot # None
          /\ ~searchResponse[1].threw )
        => /\ searchResponse[1].result.success
           /\ Len(searchResponse[1].result.hospitals) =
                 Min(DefaultTopN, Matching(searchSnapshot[1], searchRequest[1]))
           /\ triageResults' # None
           /\ Len(triageResults'[1].cards) =
                 Min(DefaultTopN, Matching(searchSnapshot[1], searchRequest[1]))
           /\ lastAlert' = lastAlert ]_vars

\* Six hospitals match and five are displayed.
C14_Witness ==
    /\ triageResults # None
    /\ triageResults[1].subtitle = None
    /\ Len(triageResults[1].cards) = DefaultTopN
    /\ Len(directory) > DefaultTopN

----------------------------------------------------------------------------
----------------------------------------------------------------------------
----------------------------------------------------------------------------
(* Another client of POST /api/hospitals/search, which sends origins the   *)
(* page never sends.                                                       *)
DirectPayloads ==
    { [latitude |-> 950, longitude |-> 776, hospital_level |-> <<1, 2, 3, 4>>],
      [latitude |-> 129, longitude |-> 1810, hospital_level |-> <<1, 2, 3, 4>>],
      [latitude |-> 0, longitude |-> 776, hospital_level |-> <<1, 2, 3, 4>>] }

PostSearchDirectly ==
    /\ searchPc.pc = "idle"
    /\ searchRequest = None
    /\ \E payload \in DirectPayloads : searchRequest' = Some(payload)
    /\ UNCHANGED <<appVars, geoVars, loadingOverlay, lastAlert, searchPc,
                   searchCalls, searchFetches, triageResults, searchSnapshot,
                   searchResponse, uploadVars, statsVars, dirVars>>

DirectSearchReturns ==
    /\ searchPc.pc = "idle"
    /\ searchResponse # None
    /\ searchRequest' = None
    /\ searchSnapshot' = None
    /\ searchResponse' = None
    /\ UNCHANGED <<appVars, geoVars, loadingOverlay, lastAlert, searchPc,
                   searchCalls, searchFetches, triageResults, uploadVars,
                   statsVars, dirVars>>

NextHospitalAPI ==
    \/ PostSearchDirectly
    \/ DirectSearchReturns
    \/ ServerSearchBegins
    \/ ServerSearchFinishes
    \/ SubmitUploadForm
    \/ handleFileUploadResumes
    \/ StatsArrive
    \/ StatsFail
    \/ ServerUploadBuildsRow
    \/ ServerUploadPublishes
    \/ UploadFetchFails

\* The hospital server with the page's uploads and another client's
\* searches.
SpecHospitalAPI == InitHospitalPage /\ [][NextHospitalAPI]_vars

----------------------------------------------------------------------------
(* C17: a search whose origin has a latitude outside [-90, 90] or a        *)
(* longitude outside [-180, 180] fails with InvalidCoordinate before any   *)
(* distance is computed: the server never takes hold of the directory for  *)
(* it, and its response holds no hospitals.                                *)
C17_InvalidCoordinateRejected ==
    ( /\ searchRequest # None
      /\ \/ searchRequest[1].latitude \notin -900..900
         \/ searchRequest[1].longitude \notin -1800..1800 )
    => /\ searchSnapshot = None
       /\ searchResponse # None =>
             /\ ~searchResponse[1].result.success
             /\ searchResponse[1].result.error = "InvalidCoordinate"
             /\ searchResponse[1].result.hospitals = <<>>

\* The request with latitude 95 has been answered with InvalidCoordinate
\* while the directory holds hospitals.
C17_Witness ==
    /\ directory # <<>>
    /\ searchRequest # None
    /\ searchRequest[1].latitude = 950
    /\ searchResponse = Delivered(SearchFailure("InvalidCoordinate"))
    /\ searchSnapshot = None

----------------------------------------------------------------------------
(* C18: every origin with latitude in [-90, 90] and longitude in           *)
(* [-180, 180], latitude 0 and longitude 0 included, is a valid query:     *)
(* once a location has been obtained findNearestHospitals sends the search *)
(* request, so the alert that asks to obtain the location first is only    *)
(* ever shown while a coordinate is still null.                            *)
C18_ObtainedLocationIsSearched ==
    lastAlert = Some("Please obtain your location first") =>
       \/ userLocation.latitude = None
       \/ userLocation.longitude = None

----------------------------------------------------------------------------
(* C19: a search that runs concurrently with an upload observes the whole  *)
(* directory as it was before the upload or the whole new directory, never *)
(* a partly built one; a search already in flight keeps the snapshot it    *)
(* started with and is answered from it.                                   *)
C19_SearchSeesWholeSnapshot ==
    [][ /\ searchSnapshot' # None => searchSnapshot'[1] \in published'
        /\ (searchSnapshot # None /\ searchSnapshot' # None) =>
              searchSnapshot' = searchSnapshot
        /\ ( /\ searchSnapshot # None
             /\ searchResponse = None
             /\ searchResponse' # None
             /\ ~searchResponse'[1].threw )
           => searchResponse'[1].result =
                 SearchSuccess(search(searchSnapshot[1], QueryOf(searchRequest[1]),
                                      DefaultTopN)) ]_vars

\* A search that began before the upload was published has been answered
\* from the empty directory it began with, while the new directory of six
\* hospitals is already published.
C19_Witness ==
    /\ searchSnapshot = Some(<<>>)
    /\ Len(directory) = 6
    /\ uploadResponse # None
    /\ searchPc.pc = "awaiting"
    /\ searchResponse = Delivered(SearchSuccess(<<>>))

----------------------------------------------------------------------------
(* C21: exactly one triage report is sent per triage that reaches a level, *)
(* by traversal or by manual override: it is sent in the step that sets    *)
(* the level and its emergency_level is the level displayed; no report is  *)
(* sent while no level is set, and none is sent again before resetTriage.  *)
C21_OneReportPerLevel ==
    [][ /\ (level = None /\ level' # None) => reportCount' = reportCount + 1
        /\ reportCount' # reportCount =>
              /\ reportCount' = reportCount + 1
              /\ level = None
              /\ level' # None
        /\ level' # None =>
              /\ lastReport' # None
              /\ lastReport'[1].emergency_level = level'[1]
        /\ level' = None => lastReport' = lastReport ]_vars

\* The second triage of a session has reached its level by traversal and
\* the second report carries that level.
C21_Witness ==
    /\ reportCount = 2
    /\ LevelByTraversal
    /\ lastReport # None
    /\ lastReport[1].emergency_level = level[1]

----------------------------------------------------------------------------
(* C22: once a severity level is set it does not change until resetTriage: *)
(* while the result is displayed no answer, scenario selection or manual   *)
(* override takes place, and a scenario is selected or an override made    *)
(* only when there is no current question and no level.                    *)
C22_LevelStableUntilReset ==
    [][ /\ level # None =>
              \/ triageVars' = triageVars
              \/ /\ level' = None
                 /\ currentScenario' = None
                 /\ currentQuestion' = NullQuestion
                 /\ history' = <<>>
        /\ (currentScenario' # currentScenario /\ currentScenario' # None) =>
              /\ ~TruthyQuestion(currentQuestion)
              /\ level = None ]_vars

\* The second triage of a session ended by an override to level 3: the
\* result is displayed while there is no current question.
C22_Witness ==
    /\ level = Some(3)
    /\ ~TruthyQuestion(currentQuestion)
    /\ currentScenario = Some(OverrideScenarioName(3))
    /\ reportCount = 2

----------------------------------------------------------------------------
\* the (question, answer) pairs along the path that leads to the node q
PathPairs(q) ==
    [i \in 1..(Len(q) - 1) |->
        [question |-> Resolve(SubSeq(q, 1, i)).question, answer |-> q[i + 1]]]

(* C23: during a tree traversal the history is exactly the sequence of     *)
(* (question, chosen answer) pairs along the path from the root of the     *)
(* selected scenario to the cursor: empty right after the selection, one   *)
(* pair more per answer; once a leaf has set the level, it is that path    *)
(* followed by the pair of the last question and the answer of the leaf.   *)
C23_HistoryIsThePath ==
    IF TruthyQuestion(currentQuestion)
    THEN IF level = None
         THEN history = PathPairs(currentQuestion)
         ELSE /\ Len(history) = Len(currentQuestion)
              /\ SubSeq(history, 1, Len(history) - 1) = PathPairs(currentQuestion)
              /\ history[Len(history)].question = Resolve(currentQuestion).question
              /\ history[Len(history)].answer \in OptionKeys(currentQuestion)
              /\ Resolve(currentQuestion).options[history[Len(history)].answer]
                    = [level |-> level[1]]
    ELSE history = <<>>

\* Two answers have been given and the third question is asked.
C23_Witness ==
    /\ ShowQuestion
    /\ Len(currentQuestion) = 3
    /\ Len(history) = 2
    /\ history[1].question = Resolve(<<currentQuestion[1]>>).question
    /\ history[2].answer = currentQuestion[3]

----------------------------------------------------------------------------
\* the number a field content stands for, null if it does not parse
NumericOrNull(s) ==
    IF parseFloat(s).nan THEN None ELSE Some(parseFloat(s).tenths)

(* C24: the location of a triage report carries the numeric value of the   *)
(* latitude and longitude fields for every field content that parses to a  *)
(* number, 0 included, and null only for content that does not parse.      *)
C24_ReportLocationNumeric ==
    [][ reportCount' # reportCount =>
           /\ lastReport'[1].location.lat = NumericOrNull(latitude)
           /\ lastReport'[1].location.lng = NumericOrNull(longitude) ]_vars

----------------------------------------------------------------------------
\* the caller info is what the response data supplies
CallerInfoIs(data) ==
    /\ mobileNumber = data.caller_id
    /\ latitude = numberToString(data.location.lat)
    /\ longitude = numberToString(data.location.lng)

(* C25: under every interleaving of the caller-info fetch with edits and   *)
(* triage events, whenever the fetch status is 'success' the mobile        *)
(* number, latitude and longitude are the values the backend supplied:     *)
(* edits typed while the fetch was loading do not survive it and the       *)
(* fields do not change afterwards.  The status leaves 'loading' once, for *)
(* 'success' or 'failed', and never changes again.                         *)
C25_FetchedCallerInfoKept ==
    [][ /\ dataFetchStatus' # dataFetchStatus =>
              /\ dataFetchStatus = "loading"
              /\ dataFetchStatus' \in {"success", "failed"}
        /\ (dataFetchStatus' = "success" /\ dataFetchStatus # "success") =>
              \E data \in CallerInfoResponses : CallerInfoIs(data)'
        /\ dataFetchStatus = "success" => callerVars' = callerVars ]_vars

\* The response arrived while the result of a triage was displayed: the
\* report went out with the fields still empty, the fields now hold the
\* fetched values.
C25_Witness ==
    /\ dataFetchStatus = "success"
    /\ mobileNumber = "9876543210"
    /\ latitude = "12.9"
    /\ longitude = "77.6"
    /\ level # None
    /\ reportCount = 1
    /\ lastReport[1].caller_id = ""
    /\ lastReport[1].location.lat = None

----------------------------------------------------------------------------
(* A server that can also refuse a request: {success: false, error?}.      *)

\* The server answers a search of the page with success = false and no
\* error text.
ServerSearchRefuses ==
    /\ searchPc.pc = "awaiting"
    /\ searchSnapshot = None
    /\ searchResponse = None
    /\ searchResponse' = Delivered(SearchFailure(""))
    /\ UNCHANGED <<appVars, geoVars, loadingOverlay, lastAlert, searchPc,
                   searchCalls, searchFetches, triageResults, searchRequest,
                   searchSnapshot, uploadVars, statsVars, dirVars>>

\* The server refuses an uploaded file before it builds anything.
ServerUploadRefuses ==
    /\ uploadRequest # None
    /\ uploadResponse = None
    /\ uploadRequest[1].built = <<>>
    /\ uploadResponse' =
          Delivered([success |-> FALSE, message |-> "", error |-> "Invalid file"])
    /\ UNCHANGED <<appVars, geoVars, loadingOverlay, lastAlert, searchVars,
                   uploadPc, uploadCalls, uploadRequest, statsVars, dirVars>>

NextHospitalRefusing ==
    \/ NextHospital
    \/ ServerSearchRefuses
    \/ ServerUploadRefuses

\* The steps that bring an operation in flight nearer to its end: the
\* position is reported or times out, the server works on a request or the
\* request fails, and a handler whose await is over resumes.
Settles ==
    \/ GeolocationSucceeds
    \/ GeolocationFails
    \/ ServerSearchBegins
    \/ ServerSearchFinishes
    \/ ServerSearchRefuses
    \/ SearchFetchFails
    \/ findNearestHospitalsResumes
    \/ ServerUploadBuildsRow
    \/ ServerUploadPublishes
    \/ ServerUploadRefuses
    \/ UploadFetchFails
    \/ handleFileUploadResumes

\* While an operation is in flight, one of them goes on.
FairHospital == WF_vars(Settles)

\* The hospital page with a server that can refuse, under fairness.
SpecHospitalFair ==
    InitHospitalPage /\ [][NextHospitalRefusing]_vars /\ FairHospital

\* the alerts of an invocation that its precondition rejects
RejectionAlerts ==
    { Some("Please obtain your location first"),
      Some("Please select at least one file to upload"),
      Some("Geolocation is not supported by your browser") }

(* C26: every operation that shows the loading overlay                     *)
(* (findNearestHospitals, handleFileUpload, getCurrentLocation) hides it   *)
(* when it ends, on every exit path: success, a response with success =    *)
(* false, a thrown request error, a geolocation error; so a displayed      *)
(* overlay is eventually hidden.  An invocation that its precondition      *)
(* rejects does not show it.                                               *)
C26_OverlayHiddenOnEveryExit ==
    /\ [][ /\ (searchPc.pc = "awaiting" /\ searchPc'.pc = "idle") => ~loadingOverlay'
           /\ (uploadPc = "awaiting" /\ uploadPc' = "idle") => ~loadingOverlay'
           /\ (geoPc = "pending" /\ geoPc' = "idle") => ~loadingOverlay'
           /\ (lastAlert' # lastAlert /\ lastAlert' \in RejectionAlerts) =>
                 /\ loadingOverlay' = loadingOverlay
                 /\ UNCHANGED <<searchPc, uploadPc, geoPc>>
           /\ (~loadingOverlay /\ loadingOverlay') =>
                 \/ searchPc.pc = "idle" /\ searchPc'.pc = "awaiting"
                 \/ uploadPc = "idle" /\ uploadPc' = "awaiting"
                 \/ geoPc = "idle" /\ geoPc' = "pending" ]_vars
    /\ (loadingOverlay ~> ~loadingOverlay)

\* A search that the server refused has ended: its alert is shown and the
\* overlay is hidden.
C26_Witness ==
    /\ lastAlert = Some("Search failed: Unknown error")
    /\ searchCalls = 1
    /\ searchPc.pc = "idle"
    /\ geoPc = "idle"
    /\ uploadPc = "idle"
    /\ ~loadingOverlay

============================================================================
